---- MODULE Spec2Model ----
(***************************************************************************)
(* pynetdicom Association (src/pynetdicom/association.py): the supervisor  *)
(* thread run() of one association in either role, the application thread  *)
(* that calls kill()/release()/abort() and the SCU helpers on it, and the  *)
(* peer/DUL environment the ACSE, DIMSE and DUL providers report.          *)
(***************************************************************************)
EXTENDS Naturals, Sequences, FiniteSets

(* ------------------------------ bounds -------------------------------- *)
\* calls the application thread makes on one association
MaxCalls == 2
\* presentation contexts a peer proposes
MaxContexts == 2
\* largest configured ae.maximum_associations
MaxAssoc == 1

(* ------------------------------ values -------------------------------- *)
None == "None"
\* a local name of run() that has not been assigned yet
Unbound == "Unbound"
Threads == {"sup", "app"}

\* line 113: the constructor's default max_pdu, kept as self.local_max_pdu
local_max_pdu == 16382
\* the receive sizes a peer advertises (0: unlimited)
PeerMaxPDUs == {0, 4096}

\* ae.presentation_contexts_scp: what the local AE offers as an SCP
SCPContexts ==
    << [AbstractSyntax |-> "Verification",
        TransferSyntax |-> <<"ImplicitVRLE", "ExplicitVRLE">>],
       [AbstractSyntax |-> "CTImageStorage",
        TransferSyntax |-> <<"ImplicitVRLE", "ExplicitVRLE">>] >>

\* the offerings an acceptor is configured with: both storage and
\* verification, or verification alone
OfferedLists == { SCPContexts, <<SCPContexts[1]>> }

\* ae.presentation_contexts_scu: what the local AE proposes as an SCU
SCUContexts ==
    << [ID |-> 1, AbstractSyntax |-> "Verification",
        TransferSyntax |-> <<"ImplicitVRLE">>],
       [ID |-> 3, AbstractSyntax |-> "CTImageStorage",
        TransferSyntax |-> <<"ImplicitVRLE">>] >>

\* another ae.presentation_contexts_scu: a query/retrieve SCU
SCUContextsQR ==
    << [ID |-> 1, AbstractSyntax |-> "Verification",
        TransferSyntax |-> <<"ImplicitVRLE">>],
       [ID |-> 3, AbstractSyntax |-> "PatientRootFind",
        TransferSyntax |-> <<"ImplicitVRLE">>] >>

\* presentation context ids are odd; the i-th proposed context has id 2i-1
ContextId(i) == 2 * i - 1

\* the abstract syntax a peer proposes under the i-th id
ProposedAbstractSyntax(i) ==
    IF i % 2 = 1 THEN "Verification" ELSE "CTImageStorage"

\* the transfer syntax lists a peer proposes for one context
ProposedTransferSyntaxes ==
    { <<"ImplicitVRLE">>, <<"ExplicitVRBE">>, <<"ExplicitVRBE", "ExplicitVRLE">> }

\* PresentationContextDefinitionList of an A-ASSOCIATE request
ProposedLists ==
    UNION { { [i \in 1..n |-> [ID |-> ContextId(i),
                               AbstractSyntax |-> ProposedAbstractSyntax(i),
                               TransferSyntax |-> f[i]]] :
                f \in [1..n -> ProposedTransferSyntaxes] } :
            n \in 0..MaxContexts }

\* the AE policies and the requests the admission step reads
AEPolicies ==
    [ require_calling_aet  : {"", "GOOD"},
      require_called_aet   : {"", "SCP"},
      maximum_associations : 1..MaxAssoc,
      active_associations  : 0..(MaxAssoc + 1) ]

AssocRqs ==
    [ CallingAETitle : {"GOOD", "BAD"}, CalledAETitle : {"SCP", "OTHER"} ]

\* the datasets send_c_store is called with
Datasets == [SOPClassUID : {"Verification", "CTImageStorage"}, encodable : BOOLEAN]

\* the priority arguments send_c_store is called with: the three valid ones
\* and an invalid one
Priorities == {0, 1, 2, 3}

\* no C-STORE primitive has been built; an attribute never assigned is << >>
NoPrimitive ==
    [AffectedSOPClassUID |-> None, Priority |-> << >>, Priorty |-> << >>,
     DataSet |-> None, priority |-> << >>]

(* --------------------------- pure helpers ----------------------------- *)
RECURSIVE SelectSeq2(_, _, _)
\* the elements s[i], s[i+1], ... of s that keep marks, in order
SelectSeq2(s, keep, i) ==
    IF i > Len(s) THEN << >>
    ELSE IF keep[i] THEN <<s[i]>> \o SelectSeq2(s, keep, i + 1)
         ELSE SelectSeq2(s, keep, i + 1)

\* how many entries of the sequence s equal x
Count(x, s) == Cardinality({ k \in 1..Len(s) : s[k] = x })

\* index of the first offered context with this abstract syntax, 0 if none
OfferedIndex(offered, abstract) ==
    IF \E j \in 1..Len(offered) : offered[j].AbstractSyntax = abstract
    THEN CHOOSE j \in 1..Len(offered) :
            /\ offered[j].AbstractSyntax = abstract
            /\ \A k \in 1..(j - 1) : offered[k].AbstractSyntax # abstract
    ELSE 0

InSeq(x, s) == \E k \in 1..Len(s) : s[k] = x

\* the acceptor's transfer syntaxes that the requestor proposed too, in the
\* acceptor's order of preference
CommonTransferSyntaxes(proposed, offeredTs) ==
    SelectSeq2(offeredTs, [k \in 1..Len(offeredTs) |-> InSeq(offeredTs[k], proposed)], 1)

\* the same outcome under another id (the first id of every proposal)
NegotiateOneRenumbered(ctx, offered) ==
    LET j == OfferedIndex(offered, ctx.AbstractSyntax)
        common == IF j = 0 THEN << >>
                  ELSE CommonTransferSyntaxes(ctx.TransferSyntax, offered[j].TransferSyntax)
    IN  IF common = << >> THEN << >>
        ELSE << [ID |-> 1, AbstractSyntax |-> ctx.AbstractSyntax,
                 TransferSyntax |-> <<common[1]>>] >>

\* the outcome for one proposed context: the accepted context, with the
\* proposed id and the single selected transfer syntax, or nothing
NegotiateOne(ctx, offered) ==
    LET j == OfferedIndex(offered, ctx.AbstractSyntax)
        common == IF j = 0 THEN << >>
                  ELSE CommonTransferSyntaxes(ctx.TransferSyntax, offered[j].TransferSyntax)
    IN  IF common = << >> THEN << >>
        ELSE << [ID |-> ctx.ID, AbstractSyntax |-> ctx.AbstractSyntax,
                 TransferSyntax |-> <<common[1]>>] >>

\* the result the negotiator reports for one proposed context
ResultOne(ctx, offered) ==
    LET j == OfferedIndex(offered, ctx.AbstractSyntax)
        common == IF j = 0 THEN << >>
                  ELSE CommonTransferSyntaxes(ctx.TransferSyntax, offered[j].TransferSyntax)
    IN  [ID |-> ctx.ID, AbstractSyntax |-> ctx.AbstractSyntax,
         TransferSyntax |-> IF common = << >> THEN << >> ELSE <<common[1]>>,
         Result |-> IF j = 0 THEN "abstract-syntax-not-supported"
                    ELSE IF common = << >> THEN "transfer-syntaxes-not-supported"
                    ELSE "acceptance"]

\* the full list of results, one per proposed context
NegotiateResults(requestor_contexts, acceptor_contexts) ==
    [i \in 1..Len(requestor_contexts) |->
        ResultOne(requestor_contexts[i], acceptor_contexts)]

RECURSIVE NegotiateFrom(_, _, _)
NegotiateFrom(requestor_contexts, acceptor_contexts, i) ==
    IF i > Len(requestor_contexts) THEN << >>
    ELSE NegotiateOne(requestor_contexts[i], acceptor_contexts)
             \o NegotiateFrom(requestor_contexts, acceptor_contexts, i + 1)

\* PresentationContextManager.accepted: the accepted contexts, in proposal
\* order
Negotiate(requestor_contexts, acceptor_contexts) ==
    NegotiateFrom(requestor_contexts, acceptor_contexts, 1)

(* ------------------------------- state -------------------------------- *)
VARIABLES
    mode,                 \* self.mode: "Acceptor" | "Requestor"
    assoc_rq,             \* run(): the A-ASSOCIATE request received, or None
    assoc_ac,             \* run(): what acse.Accept() returned
    assoc_rsp,            \* run(): the response acse.Request() returned
    MaxPDULength,         \* self.acse.MaxPDULength: << >> until negotiated
    reject_assoc_rsd,     \* run(): the [(result, source, diagnostic)] list
    presentation_contexts_accepted,   \* acse.presentation_contexts_accepted
    scu_supported_sop,    \* self.scu_supported_sop
    is_established, is_refused, is_aborted,
    _Kill,                \* self._Kill
    pc,                   \* where each thread is
    ret,                  \* where a thread goes when its kill() returns
    dul_alive,            \* what dul.is_alive() last reported
    dul_stopped,          \* dul.Stop() has returned True
    dul_killed,           \* dul.Kill() was called
    idle_expired,         \* what dul.idle_timer_expired() last reported
    peer_release,         \* CheckRelease() has delivered the peer's A-RELEASE
    peer_abort,           \* CheckAbort() has delivered the peer's A-ABORT
    acse_sent,            \* primitives handed to the ACSE, in order
    callbacks,            \* AE callbacks fired, in order
    calls,                \* calls the application thread has started
    helper,               \* the SCU helper the application thread is in, or None
    primitive,            \* send_c_store: the C-STORE primitive it has built
    msg_id,               \* SCP loop: context id of the message received, 0 if none
    event                 \* what the step just taken did that others observe

vars == << mode, assoc_rq, assoc_ac, assoc_rsp, MaxPDULength, reject_assoc_rsd,
           presentation_contexts_accepted, scu_supported_sop,
           is_established, is_refused, is_aborted, _Kill, pc, ret,
           dul_alive, dul_stopped, dul_killed, idle_expired,
           peer_release, peer_abort, acse_sent, callbacks, calls, helper,
           primitive, msg_id, event >>

\* groups of variables, for UNCHANGED
flagVars == << is_established, is_refused, is_aborted, _Kill >>
dulVars  == << dul_alive, dul_stopped, dul_killed, idle_expired >>
peerVars == << peer_release, peer_abort >>
logVars  == << acse_sent, callbacks >>
runVars  == << mode, assoc_rq, assoc_ac, assoc_rsp, MaxPDULength, reject_assoc_rsd, msg_id,
               presentation_contexts_accepted, scu_supported_sop >>

\* the step reports nothing
NoEvent == [kind |-> "none"]
Quiet == event' = NoEvent

\* before Association.__init__ has run: no role, no thread
Init ==
    /\ mode = None
    /\ assoc_rq = None
    /\ assoc_ac = None
    /\ assoc_rsp = Unbound
    /\ MaxPDULength = << >>
    /\ reject_assoc_rsd = << >>
    /\ presentation_contexts_accepted = << >>
    /\ scu_supported_sop = << >>
    /\ is_established = FALSE
    /\ is_refused = FALSE
    /\ is_aborted = FALSE
    /\ _Kill = FALSE
    /\ pc = [t \in Threads |-> IF t = "sup" THEN "new" ELSE "idle"]
    /\ ret = [t \in Threads |-> None]
    /\ dul_alive = TRUE
    /\ dul_stopped = FALSE
    /\ dul_killed = FALSE
    /\ idle_expired = FALSE
    /\ peer_release = FALSE
    /\ peer_abort = FALSE
    /\ acse_sent = << >>
    /\ callbacks = << >>
    /\ calls = 0
    /\ helper = None
    /\ primitive = NoPrimitive
    /\ msg_id = 0
    /\ event = NoEvent

Goto(t, l) == pc' = [pc EXCEPT ![t] = l]

\* a call of self.kill() by thread t that returns to label l (for the
\* application thread: that ends its call l)
CallKill(t, l) ==
    /\ pc' = [pc EXCEPT ![t] = "kill_flag"]
    /\ ret' = [ret EXCEPT ![t] = l]

\* thread t's call returns r to the application
Returned(call, r) == [kind |-> "return", call |-> call, value |-> r]

(* ----------------------------- __init__ ------------------------------- *)
\* the arguments a caller passes: None, or a socket / a peer AE dict (with
\* its Address, Port and AET entries, hence true in a boolean context)
ClientSockets == {None, "socket"}
PeerAEs == {None, "peer"}

\* lines 121-127: the two tests that raise ValueError
NeitherSupplied(client_socket, peer_ae) ==
    << client_socket, peer_ae >> = << None, None >>

BothSuppliedUnchecked(client_socket, peer_ae) == FALSE

BothSupplied(client_socket, peer_ae) ==
    client_socket # None /\ peer_ae # None

\* lines 130-135: client_socket selects Acceptor, then peer_ae selects
\* Requestor
ModeOf(client_socket, peer_ae) ==
    IF peer_ae # None THEN "Requestor"
    ELSE IF client_socket # None THEN "Acceptor"
    ELSE None

\* what one call of the constructor did
Constructed(client_socket, peer_ae, raised, dul_created, started) ==
    [kind |-> "init", client_socket |-> client_socket, peer_ae |-> peer_ae,
     raised |-> raised, dul_created |-> dul_created, started |-> started]

\* lines 108-183: Association.__init__
Construct ==
    /\ pc["sup"] = "new"
    /\ \E client_socket \in ClientSockets, peer_ae \in PeerAEs :
         IF \/ NeitherSupplied(client_socket, peer_ae)
            \/ BothSupplied(client_socket, peer_ae)
         THEN /\ Goto("sup", "invalid")
              /\ event' = Constructed(client_socket, peer_ae, "ValueError", FALSE, 0)
              /\ UNCHANGED mode
         ELSE /\ mode' = ModeOf(client_socket, peer_ae)
              /\ Goto("sup", "start")
              /\ event' = Constructed(client_socket, peer_ae, None, TRUE, 1)
    /\ UNCHANGED << flagVars, ret, assoc_rq, assoc_ac, assoc_rsp, MaxPDULength, reject_assoc_rsd, msg_id,
                    presentation_contexts_accepted, scu_supported_sop,
                    dulVars, peerVars, logVars, calls, helper, primitive >>

(* ------------------------------ kill() -------------------------------- *)
\* line 190: self._Kill = True
KillSetFlag(t) ==
    /\ pc[t] = "kill_flag"
    /\ _Kill' = TRUE
    /\ Goto(t, "kill_clear")
    /\ Quiet
    /\ UNCHANGED << is_established, is_refused, is_aborted, ret, runVars,
                    dulVars, peerVars, logVars, calls, helper, primitive >>

\* line 191: self.is_established = False
KillClearEstablished(t) ==
    /\ pc[t] = "kill_clear"
    /\ is_established' = FALSE
    /\ Goto(t, "kill_stop")
    /\ Quiet
    /\ UNCHANGED << is_refused, is_aborted, _Kill, ret, runVars, dulVars,
                    peerVars, logVars, calls, helper, primitive >>

\* line 192: while not self.dul.Stop()
KillStopDul(t) ==
    /\ pc[t] = "kill_stop"
    /\ \E stopped \in BOOLEAN :
         IF stopped
         THEN /\ dul_stopped' = TRUE
              /\ pc' = [pc EXCEPT ![t] = IF t = "app" THEN "idle" ELSE ret[t]]
              /\ ret' = [ret EXCEPT ![t] = None]
              /\ event' = IF t = "app" THEN Returned(ret[t], None) ELSE NoEvent
         ELSE Goto(t, "kill_sleep") /\ Quiet /\ UNCHANGED << dul_stopped, ret >>
    /\ UNCHANGED << flagVars, runVars, dul_alive, dul_killed, idle_expired,
                    peerVars, logVars, calls, helper, primitive >>

\* line 193: time.sleep(0.001), then poll again
KillSleep(t) ==
    /\ pc[t] = "kill_sleep"
    /\ Goto(t, "kill_stop")
    /\ Quiet
    /\ UNCHANGED << flagVars, ret, runVars, dulVars, peerVars, logVars,
                    calls, helper, primitive >>

(* ----------------------- run(): both roles ---------------------------- *)
\* a primitive handed to the ACSE, with whether the association was
\* established when it was issued
Primitive(type, params) ==
    [type |-> type, params |-> params, established |-> is_established]

RoleBranchAcceptorOnly(m) == "acc_receive"

\* lines 225, 382: run() takes the acceptor's or the requestor's branch
RoleBranch(m) == IF m = "Acceptor" THEN "acc_receive" ELSE "req_check"

\* lines 221-225, 382: create the ACSE and DIMSE providers, branch on mode
RunStart ==
    /\ pc["sup"] = "start"
    /\ Goto("sup", RoleBranch(mode))
    /\ Quiet
    /\ UNCHANGED << flagVars, ret, runVars, dulVars, peerVars, logVars, calls, helper, primitive >>

(* ----------------------- run(): Acceptor ------------------------------ *)
\* lines 230-234: assoc_rq = self.dul.Receive(Wait=True); None -> kill
AccReceive ==
    /\ pc["sup"] = "acc_receive"
    /\ \/ assoc_rq' = None /\ CallKill("sup", "done")
       \/ /\ assoc_rq' = "A-ASSOCIATE-RQ"
          /\ Goto("sup", "acc_admit")
          /\ UNCHANGED ret
    /\ Quiet
    /\ UNCHANGED << flagVars, mode, assoc_ac, assoc_rsp, MaxPDULength, reject_assoc_rsd, msg_id,
                    presentation_contexts_accepted, scu_supported_sop,
                    dulVars, peerVars, logVars, calls, helper, primitive >>

\* lines 252-254: calling AE title required and different
CallingNotRecognised(a, rq) ==
    a.require_calling_aet # "" /\ a.require_calling_aet # rq.CallingAETitle

\* lines 257-258: the comparison reads self.AE, an attribute __init__ never
\* sets (it sets self.ae, line 141): reaching line 258 raises AttributeError
CalledCheckRaises(a) == a.require_called_aet # ""

\* line 264: len(self.ae.active_associations) > self.ae.maximum_associations
LimitExceeded(a) == a.active_associations > a.maximum_associations

\* lines 249-265 when line 258 is not reached: each test that holds
\* overwrites the list
RejectAssocRsd(a, rq) ==
    LET calling == IF CallingNotRecognised(a, rq) THEN << <<1, 1, 3>> >> ELSE << >>
    IN  IF LimitExceeded(a) THEN << <<2, 3, 2>> >> ELSE calling

\* lines 249-267: the admission policy, on the AE policy and the request
\* titles it reads
AccAdmission ==
    /\ pc["sup"] = "acc_admit"
    /\ \E a \in AEPolicies, rq \in AssocRqs :
         /\ event' = [kind |-> "admission", ae |-> a, rq |-> rq]
         /\ IF CalledCheckRaises(a)
            THEN /\ reject_assoc_rsd' =
                      IF CallingNotRecognised(a, rq) THEN << <<1, 1, 3>> >> ELSE << >>
                 /\ Goto("sup", "error")
            ELSE /\ reject_assoc_rsd' = RejectAssocRsd(a, rq)
                 /\ Goto("sup", IF RejectAssocRsd(a, rq) = << >>
                                THEN "acc_negotiate" ELSE "acc_reject")
    /\ UNCHANGED << flagVars, ret, mode, assoc_rq, assoc_ac, assoc_rsp, MaxPDULength, msg_id,
                    presentation_contexts_accepted, scu_supported_sop,
                    dulVars, peerVars, logVars, calls, helper, primitive >>

\* line 268: assoc_rj = self.acse.Reject(assoc_rq, result, src, diag)
AccReject ==
    /\ pc["sup"] = "acc_reject"
    /\ acse_sent' = Append(acse_sent, Primitive("A-ASSOCIATE-RJ", reject_assoc_rsd[1]))
    /\ Goto("sup", "acc_rejected_cb")
    /\ Quiet
    /\ UNCHANGED << flagVars, ret, runVars, dulVars, peerVars, callbacks, calls, helper, primitive >>

\* lines 270-272: self.ae.on_association_rejected(assoc_rj); kill; return
AccRejectedCallback ==
    /\ pc["sup"] = "acc_rejected_cb"
    /\ callbacks' = Append(callbacks, "rejected")
    /\ CallKill("sup", "done")
    /\ Quiet
    /\ UNCHANGED << flagVars, runVars, dulVars, peerVars, acse_sent, calls, helper, primitive >>

\* what the context manager was given and the results it reports
Negotiated(requestor_contexts, acceptor_contexts) ==
    [kind |-> "negotiate",
     requestor_contexts |-> requestor_contexts,
     acceptor_contexts |-> acceptor_contexts,
     results |-> NegotiateResults(requestor_contexts, acceptor_contexts)]

\* lines 274-281: the context manager negotiates the proposed contexts
AccNegotiate ==
    /\ pc["sup"] = "acc_negotiate"
    /\ \E proposed \in ProposedLists, offered \in OfferedLists :
         /\ presentation_contexts_accepted' = Negotiate(proposed, offered)
         /\ event' = Negotiated(proposed, offered)
    /\ Goto("sup", "acc_accept")
    /\ UNCHANGED << flagVars, ret, mode, assoc_rq, assoc_ac, assoc_rsp, MaxPDULength,
                    reject_assoc_rsd, msg_id, scu_supported_sop, dulVars,
                    peerVars, logVars, calls, helper, primitive >>

\* line 284: assoc_ac = self.acse.Accept(assoc_rq)
AccAccept ==
    /\ pc["sup"] = "acc_accept"
    /\ \E ac \in {"A-ASSOCIATE-AC", None} :
         /\ assoc_ac' = ac
         /\ acse_sent' = IF ac = None THEN acse_sent
                         ELSE Append(acse_sent, Primitive("A-ASSOCIATE-AC", << >>))
         /\ IF ac = None THEN UNCHANGED MaxPDULength
            ELSE \E peer_max \in PeerMaxPDUs : MaxPDULength' = <<peer_max>>
    /\ Goto("sup", "acc_accepted_cb")
    /\ Quiet
    /\ UNCHANGED << flagVars, ret, mode, assoc_rq, assoc_rsp,
                    reject_assoc_rsd, msg_id,
                    presentation_contexts_accepted, scu_supported_sop,
                    dulVars, peerVars, callbacks, calls, helper, primitive >>

\* lines 287-292: the accepted callback, then `if assoc_ac is None: kill`
AccAcceptedCallback ==
    /\ pc["sup"] = "acc_accepted_cb"
    /\ callbacks' = Append(callbacks, "accepted")
    /\ IF assoc_ac = None THEN CallKill("sup", "done")
       ELSE Goto("sup", "acc_check_contexts") /\ UNCHANGED ret
    /\ Quiet
    /\ UNCHANGED << flagVars, runVars, dulVars, peerVars, acse_sent, calls, helper, primitive >>

\* the test of lines 295 and 423 left out
NoValidContextsUnchecked(accepted) == FALSE

\* lines 295, 423: if self.acse.presentation_contexts_accepted == []
NoValidContexts(accepted) == accepted = << >>

\* line 295: no valid presentation contexts -> abort the association
AccCheckContexts ==
    /\ pc["sup"] = "acc_check_contexts"
    /\ Goto("sup", IF NoValidContexts(presentation_contexts_accepted)
                   THEN "acc_abort" ELSE "acc_establish")
    /\ Quiet
    /\ UNCHANGED << flagVars, ret, runVars, dulVars, peerVars, logVars, calls, helper, primitive >>

\* lines 296-298: self.acse.Abort(0x02, 0x00); self.kill(); return
AccAbort ==
    /\ pc["sup"] = "acc_abort"
    /\ acse_sent' = Append(acse_sent, Primitive("A-ABORT", <<2, 0>>))
    /\ CallKill("sup", "done")
    /\ Quiet
    /\ UNCHANGED << flagVars, runVars, dulVars, peerVars, callbacks, calls, helper, primitive >>

\* line 301: self.is_established = True
AccEstablish ==
    /\ pc["sup"] = "acc_establish"
    /\ is_established' = TRUE
    /\ Goto("sup", "scp_loop")
    /\ Quiet
    /\ UNCHANGED << is_refused, is_aborted, _Kill, ret, runVars, dulVars,
                    peerVars, logVars, calls, helper, primitive >>

(* ------------------ run(): the SCP steady-state loop ------------------ *)
\* a DIMSE Send or Receive call made by thread t
DimseCall(op, t) == [kind |-> "dimse", op |-> op, by |-> t]

\* the context ids a received DIMSE message can carry: the proposable ids
\* and one more
MessageContextIds == { ContextId(i) : i \in 1..(MaxContexts + 1) }

\* line 315: while not self._Kill
ScpLoopTest ==
    /\ pc["sup"] = "scp_loop"
    /\ Goto("sup", IF _Kill THEN "done" ELSE "scp_receive")
    /\ Quiet
    /\ UNCHANGED << flagVars, ret, runVars, dulVars, peerVars, logVars, calls, helper, primitive >>

\* lines 320-324: msg, msg_id = self.dimse.Receive(False, self.dimse_timeout)
ScpReceive ==
    /\ pc["sup"] = "scp_receive"
    /\ event' = DimseCall("Receive", "sup")
    /\ \/ msg_id' = 0 /\ Goto("sup", "scp_check_release")
       \/ msg_id' \in MessageContextIds /\ Goto("sup", "scp_dispatch")
    /\ UNCHANGED << flagVars, ret, mode, assoc_rq, assoc_ac, assoc_rsp, MaxPDULength,
                    reject_assoc_rsd, presentation_contexts_accepted,
                    scu_supported_sop, dulVars, peerVars, logVars, calls, helper, primitive >>

MatchingContextsAnyId(accepted, id) ==
    { k \in 1..Len(accepted) : TRUE }

\* lines 333-346: the accepted contexts whose ID equals the id received
MatchingContexts(accepted, id) ==
    { k \in 1..Len(accepted) : accepted[k].ID = id }

\* lines 339-344: the loop leaves the last matching context bound
BoundContext(accepted, id) ==
    accepted[CHOOSE k \in MatchingContexts(accepted, id) :
                \A j \in MatchingContexts(accepted, id) : j <= k]

BoundLocalMaxPDU(acse_max, local_max) == <<local_max>>

\* lines 350, 536, 695, 770, 807, 845: the maximum PDU length a handler is
\* bound with or a send is given, self.acse.MaxPDULength
BoundMaxPDU(acse_max, local_max) == acse_max

\* lines 326-356: bind the matching context and run the handler's SCP
ScpDispatch ==
    /\ pc["sup"] = "scp_dispatch"
    /\ event' =
         IF MatchingContexts(presentation_contexts_accepted, msg_id) = {}
         THEN [kind |-> "dropped", pcid |-> msg_id]
         ELSE [kind |-> "dispatch", pcid |-> msg_id,
               context |-> BoundContext(presentation_contexts_accepted, msg_id),
               maxpdulength |-> BoundMaxPDU(MaxPDULength, local_max_pdu)]
    /\ msg_id' = 0
    /\ Goto("sup", "scp_check_release")
    /\ UNCHANGED << flagVars, ret, mode, assoc_rq, assoc_ac, assoc_rsp, MaxPDULength,
                    reject_assoc_rsd, presentation_contexts_accepted,
                    scu_supported_sop, dulVars, peerVars, logVars, calls, helper, primitive >>

\* line 359: if self.acse.CheckRelease(), true once when the peer's
\* A-RELEASE has arrived
ScpCheckRelease ==
    /\ pc["sup"] = "scp_check_release"
    /\ \/ /\ ~peer_release
          /\ peer_release' = TRUE
          /\ Goto("sup", "scp_released_cb")
       \/ UNCHANGED peer_release /\ Goto("sup", "scp_check_abort")
    /\ Quiet
    /\ UNCHANGED << flagVars, ret, runVars, dulVars, peer_abort, logVars, calls, helper, primitive >>

\* lines 361-363: on_association_released(); self.kill()  (no return)
ScpReleasedCallback ==
    /\ pc["sup"] = "scp_released_cb"
    /\ callbacks' = Append(callbacks, "released")
    /\ CallKill("sup", "scp_check_abort")
    /\ Quiet
    /\ UNCHANGED << flagVars, runVars, dulVars, peerVars, acse_sent, calls, helper, primitive >>

\* line 366: if self.acse.CheckAbort(), true once when the peer's A-ABORT
\* has arrived
ScpCheckAbort ==
    /\ pc["sup"] = "scp_check_abort"
    /\ \/ /\ ~peer_abort
          /\ peer_abort' = TRUE
          /\ Goto("sup", "scp_aborted_cb")
       \/ UNCHANGED peer_abort /\ Goto("sup", "scp_check_alive")
    /\ Quiet
    /\ UNCHANGED << flagVars, ret, runVars, dulVars, peer_release, logVars, calls, helper, primitive >>

\* lines 368-370: on_association_aborted(None); self.kill()  (no return)
ScpAbortedCallback ==
    /\ pc["sup"] = "scp_aborted_cb"
    /\ callbacks' = Append(callbacks, "aborted")
    /\ CallKill("sup", "scp_check_alive")
    /\ Quiet
    /\ UNCHANGED << flagVars, runVars, dulVars, peerVars, acse_sent, calls, helper, primitive >>

\* lines 374-375: if not self.dul.is_alive(): self.kill()
\* (a DUL thread that has died stays dead)
ScpCheckAlive ==
    /\ pc["sup"] = "scp_check_alive"
    /\ \E alive \in {dul_alive, FALSE} :
         /\ dul_alive' = alive
         /\ IF ~alive THEN CallKill("sup", "scp_check_idle")
            ELSE Goto("sup", "scp_check_idle") /\ UNCHANGED ret
    /\ Quiet
    /\ UNCHANGED << flagVars, runVars, dul_stopped, dul_killed, idle_expired,
                    peerVars, logVars, calls, helper, primitive >>

\* lines 378-379: if self.dul.idle_timer_expired(): self.kill()
ScpCheckIdle ==
    /\ pc["sup"] = "scp_check_idle"
    /\ \E expired \in BOOLEAN :
         /\ idle_expired' = expired
         /\ IF expired THEN CallKill("sup", "scp_loop")
            ELSE Goto("sup", "scp_loop") /\ UNCHANGED ret
    /\ Quiet
    /\ UNCHANGED << flagVars, runVars, dul_alive, dul_stopped, dul_killed,
                    peerVars, logVars, calls, helper, primitive >>

(* ----------------------- run(): Requestor ----------------------------- *)
\* lines 384-387: no presentation contexts set for the SCU -> kill, return
ReqCheckProposal ==
    /\ pc["sup"] = "req_check"
    /\ \E presentation_contexts_scu \in {<< >>, SCUContexts} :
         IF presentation_contexts_scu = << >> THEN CallKill("sup", "done")
         ELSE Goto("sup", "req_request") /\ UNCHANGED ret
    /\ Quiet
    /\ UNCHANGED << flagVars, runVars, dulVars, peerVars, logVars, calls, helper, primitive >>

\* what a peer can accept of a proposal: any of the proposed contexts, in
\* order, each with its first proposed transfer syntax
PeerAccepted(proposed) ==
    LET n == Len(proposed)
    IN  { SelectSeq2([i \in 1..n |->
                        [ID |-> proposed[i].ID,
                         AbstractSyntax |-> proposed[i].AbstractSyntax,
                         TransferSyntax |-> <<proposed[i].TransferSyntax[1]>>]],
                     keep, 1) :
            keep \in [1..n -> BOOLEAN] }

\* what acse.Request() can return: an A-ASSOCIATE response that accepts or
\* rejects, an A-ABORT, an A-P-ABORT, or nothing
Responses == {"A-ASSOCIATE-AC", "A-ASSOCIATE-RJ", "A-ABORT", "A-P-ABORT", None}

ResponseBranchKillOnly(rsp) ==
    IF rsp = "A-ASSOCIATE-AC" THEN "req_accepted_cb" ELSE "req_dul_kill"

\* lines 416-418, 476, 485, 494, 500: the branch run() takes on a response
ResponseBranch(rsp) ==
    CASE rsp = "A-ASSOCIATE-AC" -> "req_accepted_cb"
      [] rsp = "A-ASSOCIATE-RJ" -> "req_rejected_cb"
      [] rsp = "A-ABORT" -> "req_aborted_cb"
      [] rsp = "A-P-ABORT" -> "req_set_aborted"
      [] OTHER -> "req_dul_kill"

\* lines 408-418, 476, 485, 494, 500: acse.Request and the response's class
ReqRequest ==
    /\ pc["sup"] = "req_request"
    /\ acse_sent' = Append(acse_sent, Primitive("A-ASSOCIATE-RQ", << >>))
    /\ \E rsp \in Responses :
         /\ assoc_rsp' = rsp
         /\ IF rsp = "A-ASSOCIATE-AC"
            THEN /\ presentation_contexts_accepted' \in
                      PeerAccepted(SCUContexts) \cup PeerAccepted(SCUContextsQR)
                 /\ \E peer_max \in PeerMaxPDUs : MaxPDULength' = <<peer_max>>
            ELSE UNCHANGED << presentation_contexts_accepted, MaxPDULength >>
         /\ Goto("sup", ResponseBranch(rsp))
    /\ Quiet
    /\ UNCHANGED << flagVars, ret, mode, assoc_rq, assoc_ac,
                    reject_assoc_rsd, msg_id, scu_supported_sop, dulVars,
                    peerVars, callbacks, calls, helper, primitive >>

\* lines 419-420: self.ae.on_association_accepted(assoc_rsp)
ReqAcceptedCallback ==
    /\ pc["sup"] = "req_accepted_cb"
    /\ callbacks' = Append(callbacks, "accepted")
    /\ Goto("sup", "req_check_contexts")
    /\ Quiet
    /\ UNCHANGED << flagVars, ret, runVars, dulVars, peerVars, acse_sent, calls, helper, primitive >>

\* line 423: no acceptable presentation contexts
ReqCheckContexts ==
    /\ pc["sup"] = "req_check_contexts"
    /\ Goto("sup", IF NoValidContexts(presentation_contexts_accepted)
                   THEN "req_abort" ELSE "req_build_reset")
    /\ Quiet
    /\ UNCHANGED << flagVars, ret, runVars, dulVars, peerVars, logVars, calls, helper, primitive >>

\* lines 425-427: self.acse.Abort(0x02, 0x00); self.kill(); return
ReqAbort ==
    /\ pc["sup"] = "req_abort"
    /\ acse_sent' = Append(acse_sent, Primitive("A-ABORT", <<2, 0>>))
    /\ CallKill("sup", "done")
    /\ Quiet
    /\ UNCHANGED << flagVars, runVars, dulVars, peerVars, callbacks, calls, helper, primitive >>

\* UID2SOPClass: the SOP class registered under an abstract syntax UID
UID2SOPClass(uid) ==
    CASE uid = "Verification" -> "VerificationSOPClass"
      [] uid = "CTImageStorage" -> "CTImageStorageSOPClass"
      [] uid = "PatientRootFind" -> "PatientRootFindSOPClass"
      [] OTHER -> None

\* lines 430-431: self.scu_supported_sop = [], then the for loop is entered
\* only when there is a context to iterate over
ReqBuildReset ==
    /\ pc["sup"] = "req_build_reset"
    /\ scu_supported_sop' = << >>
    /\ Goto("sup", IF presentation_contexts_accepted = << >>
                   THEN "req_establish" ELSE "req_build")
    /\ Quiet
    /\ UNCHANGED << flagVars, ret, mode, assoc_rq, assoc_ac, assoc_rsp, MaxPDULength,
                    reject_assoc_rsd, msg_id, presentation_contexts_accepted,
                    dulVars, peerVars, logVars, calls, helper, primitive >>

\* a build that stops after its first append
ReqBuildAppendFirstOnly ==
    /\ pc["sup"] = "req_build"
    /\ LET k == Len(scu_supported_sop) + 1
           context == presentation_contexts_accepted[k]
       IN  /\ scu_supported_sop' =
                Append(scu_supported_sop,
                       << context.ID, UID2SOPClass(context.AbstractSyntax),
                          context.TransferSyntax[1] >>)
           /\ Goto("sup", "req_establish")
    /\ Quiet
    /\ UNCHANGED << flagVars, ret, mode, assoc_rq, assoc_ac, assoc_rsp, MaxPDULength,
                    reject_assoc_rsd, msg_id, presentation_contexts_accepted,
                    dulVars, peerVars, logVars, calls, helper, primitive >>

\* lines 431-435: one append per accepted context
ReqBuildAppend ==
    /\ pc["sup"] = "req_build"
    /\ LET k == Len(scu_supported_sop) + 1
           context == presentation_contexts_accepted[k]
       IN  /\ scu_supported_sop' =
                Append(scu_supported_sop,
                       << context.ID, UID2SOPClass(context.AbstractSyntax),
                          context.TransferSyntax[1] >>)
           /\ Goto("sup", IF k = Len(presentation_contexts_accepted)
                          THEN "req_establish" ELSE "req_build")
    /\ Quiet
    /\ UNCHANGED << flagVars, ret, mode, assoc_rq, assoc_ac, assoc_rsp, MaxPDULength,
                    reject_assoc_rsd, msg_id, presentation_contexts_accepted,
                    dulVars, peerVars, logVars, calls, helper, primitive >>

\* line 438: self.is_established = True
ReqEstablish ==
    /\ pc["sup"] = "req_establish"
    /\ is_established' = TRUE
    /\ Goto("sup", "scu_loop")
    /\ Quiet
    /\ UNCHANGED << is_refused, is_aborted, _Kill, ret, runVars, dulVars,
                    peerVars, logVars, calls, helper, primitive >>

\* line 444: while not self._Kill
ScuLoopTest ==
    /\ pc["sup"] = "scu_loop"
    /\ Goto("sup", IF _Kill THEN "done" ELSE "scu_check_release")
    /\ Quiet
    /\ UNCHANGED << flagVars, ret, runVars, dulVars, peerVars, logVars, calls, helper, primitive >>

\* line 448: if self.acse.CheckRelease()
ScuCheckRelease ==
    /\ pc["sup"] = "scu_check_release"
    /\ \/ /\ ~peer_release
          /\ peer_release' = TRUE
          /\ Goto("sup", "scu_released_cb")
       \/ UNCHANGED peer_release /\ Goto("sup", "scu_check_abort")
    /\ Quiet
    /\ UNCHANGED << flagVars, ret, runVars, dulVars, peer_abort, logVars, calls, helper, primitive >>

\* lines 450-453: on_association_released(); self.kill(); return
ScuReleasedCallback ==
    /\ pc["sup"] = "scu_released_cb"
    /\ callbacks' = Append(callbacks, "released")
    /\ CallKill("sup", "done")
    /\ Quiet
    /\ UNCHANGED << flagVars, runVars, dulVars, peerVars, acse_sent, calls, helper, primitive >>

\* line 456: if self.acse.CheckAbort()
ScuCheckAbort ==
    /\ pc["sup"] = "scu_check_abort"
    /\ \/ /\ ~peer_abort
          /\ peer_abort' = TRUE
          /\ Goto("sup", "scu_aborted_cb")
       \/ UNCHANGED peer_abort /\ Goto("sup", "scu_check_alive")
    /\ Quiet
    /\ UNCHANGED << flagVars, ret, runVars, dulVars, peer_release, logVars, calls, helper, primitive >>

\* lines 458-461: on_association_aborted(); self.kill(); return
ScuAbortedCallback ==
    /\ pc["sup"] = "scu_aborted_cb"
    /\ callbacks' = Append(callbacks, "aborted")
    /\ CallKill("sup", "done")
    /\ Quiet
    /\ UNCHANGED << flagVars, runVars, dulVars, peerVars, acse_sent, calls, helper, primitive >>

\* lines 466-468: if not self.dul.isAlive(): self.kill(); return
ScuCheckAlive ==
    /\ pc["sup"] = "scu_check_alive"
    /\ \E alive \in {dul_alive, FALSE} :
         /\ dul_alive' = alive
         /\ IF ~alive THEN CallKill("sup", "done")
            ELSE Goto("sup", "scu_check_idle") /\ UNCHANGED ret
    /\ Quiet
    /\ UNCHANGED << flagVars, runVars, dul_stopped, dul_killed, idle_expired,
                    peerVars, logVars, calls, helper, primitive >>

\* lines 471-473: if self.dul.idle_timer_expired(): self.kill(); return
ScuCheckIdle ==
    /\ pc["sup"] = "scu_check_idle"
    /\ \E expired \in BOOLEAN :
         /\ idle_expired' = expired
         /\ IF expired THEN CallKill("sup", "done")
            ELSE Goto("sup", "scu_loop") /\ UNCHANGED ret
    /\ Quiet
    /\ UNCHANGED << flagVars, runVars, dul_alive, dul_stopped, dul_killed,
                    peerVars, logVars, calls, helper, primitive >>

\* lines 477-478: self.ae.on_association_rejected(assoc_rsp)
ReqRejectedCallback ==
    /\ pc["sup"] = "req_rejected_cb"
    /\ callbacks' = Append(callbacks, "rejected")
    /\ Goto("sup", "req_set_refused")
    /\ Quiet
    /\ UNCHANGED << flagVars, ret, runVars, dulVars, peerVars, acse_sent, calls, helper, primitive >>

\* a rejection that would mark the association aborted as well
ReqSetRefusedAndAborted ==
    /\ pc["sup"] = "req_set_refused"
    /\ is_refused' = TRUE
    /\ is_aborted' = TRUE
    /\ Goto("sup", "req_dul_kill")
    /\ Quiet
    /\ UNCHANGED << is_established, _Kill, ret, runVars, dulVars,
                    peerVars, logVars, calls, helper, primitive >>

\* line 480: self.is_refused = True
ReqSetRefused ==
    /\ pc["sup"] = "req_set_refused"
    /\ is_refused' = TRUE
    /\ Goto("sup", "req_dul_kill")
    /\ Quiet
    /\ UNCHANGED << is_established, is_aborted, _Kill, ret, runVars, dulVars,
                    peerVars, logVars, calls, helper, primitive >>

\* lines 486-487: self.ae.on_association_aborted(assoc_rsp)
ReqAbortedCallback ==
    /\ pc["sup"] = "req_aborted_cb"
    /\ callbacks' = Append(callbacks, "aborted")
    /\ Goto("sup", "req_set_aborted")
    /\ Quiet
    /\ UNCHANGED << flagVars, ret, runVars, dulVars, peerVars, acse_sent, calls, helper, primitive >>

\* lines 489, 495: self.is_aborted = True
ReqSetAborted ==
    /\ pc["sup"] = "req_set_aborted"
    /\ is_aborted' = TRUE
    /\ Goto("sup", "req_dul_kill")
    /\ Quiet
    /\ UNCHANGED << is_established, is_refused, _Kill, ret, runVars, dulVars,
                    peerVars, logVars, calls, helper, primitive >>

\* lines 481-482, 490-491, 496-497, 501-502: self.dul.Kill(); return
ReqDulKill ==
    /\ pc["sup"] = "req_dul_kill"
    /\ dul_killed' = TRUE
    /\ Goto("sup", "done")
    /\ Quiet
    /\ UNCHANGED << flagVars, ret, runVars, dul_alive, dul_stopped,
                    idle_expired, peerVars, logVars, calls, helper, primitive >>

(* ---------------- the application thread's calls ---------------------- *)
\* the SCU helpers other than send_c_store, and the query models a caller
\* passes (one of them unknown)
ScuHelpers == {"send_c_echo", "send_c_find", "send_c_move", "send_c_get"}
QueryModels == {"W", "P", "S", "O", "X"}

\* the application calls kill(), release(), abort() or send_c_store(dataset)
AppCall ==
    /\ pc["app"] = "idle"
    /\ pc["sup"] \notin {"new", "invalid"}
    /\ calls < MaxCalls
    /\ calls' = calls + 1
    /\ \/ CallKill("app", "kill")
       \/ Goto("app", "release_acse") /\ UNCHANGED ret
       \/ Goto("app", "abort_acse") /\ UNCHANGED ret
       \/ Goto("app", "store_check") /\ UNCHANGED ret
    /\ UNCHANGED << helper, primitive >>
    /\ Quiet
    /\ UNCHANGED << flagVars, runVars, dulVars, peerVars, logVars >>

\* the reasons Abort(reason) is called with
AbortReasons == {0, 2}

\* lines 195, 203, 185: the positional arguments release(), abort() and
\* kill() take besides self
Takes(method) == 0

\* a call with a number of positional arguments the method does not take
\* raises TypeError before the method's body runs
RaisesTypeError(method, args) == Len(args) # Takes(method)

\* lines 1020-1027: a deprecated entry point has called its replacement
\* with these arguments
Deprecated(call, replacement, args) ==
    [kind |-> "deprecated", call |-> call, replacement |-> replacement,
     args |-> args,
     raised |-> IF RaisesTypeError(replacement, args) THEN "TypeError" ELSE None]

\* lines 1029-1031: what the AssociationEstablished property returns
AssociationEstablished == is_established

\* the first label of release(), abort() and kill()
EntryOf(method) ==
    CASE method = "release" -> "release_acse"
      [] method = "abort" -> "abort_acse"
      [] OTHER -> "kill_flag"

\* the deprecated entry point `call` calls `replacement` with args: the
\* replacement is entered, or the call raises and the thread stays idle
CallDeprecated(call, replacement, args) ==
    /\ event' = Deprecated(call, replacement, args)
    /\ IF RaisesTypeError(replacement, args)
       THEN UNCHANGED << pc, ret >>
       ELSE IF replacement = "kill" THEN CallKill("app", "kill")
       ELSE Goto("app", EntryOf(replacement)) /\ UNCHANGED ret

\* lines 1020-1031: the application calls Release(), Abort(reason) or Kill(),
\* or reads AssociationEstablished
AppCallDeprecated ==
    /\ pc["app"] = "idle"
    /\ pc["sup"] \notin {"new", "invalid"}
    /\ calls < MaxCalls
    /\ calls' = calls + 1
    /\ \/ CallDeprecated("Release", "release", << >>)
       \/ \E reason \in AbortReasons : CallDeprecated("Abort", "abort", <<reason>>)
       \/ CallDeprecated("Kill", "kill", << >>)
       \/ /\ event' = [kind |-> "property", name |-> "AssociationEstablished",
                       result |-> AssociationEstablished]
          /\ UNCHANGED << pc, ret >>
    /\ UNCHANGED << flagVars, runVars, dulVars, peerVars, logVars, helper, primitive >>

\* the application calls send_c_echo, send_c_find, send_c_move or send_c_get
AppCallHelper ==
    /\ pc["app"] = "idle"
    /\ pc["sup"] \notin {"new", "invalid"}
    /\ calls < MaxCalls
    /\ calls' = calls + 1
    /\ helper' \in ScuHelpers
    /\ Goto("app", "scu_check")
    /\ Quiet
    /\ UNCHANGED << flagVars, ret, runVars, dulVars, peerVars, logVars, primitive >>

\* self.acse exists once run() has executed line 221
AcseCreated == pc["sup"] # "start"

\* lines 200-201: self.acse.Release(); self.kill()
Release ==
    /\ pc["app"] = "release_acse"
    /\ IF AcseCreated
       THEN /\ acse_sent' = Append(acse_sent, Primitive("A-RELEASE", << >>))
            /\ CallKill("app", "release")
            /\ Quiet
       ELSE /\ Goto("app", "idle")
            /\ event' = Returned("release", "AttributeError")
            /\ UNCHANGED << acse_sent, ret >>
    /\ UNCHANGED << flagVars, runVars, dulVars, peerVars, callbacks, calls, helper, primitive >>

\* lines 213-214: self.acse.Abort(source=0x00, reason=0x00); self.kill()
Abort ==
    /\ pc["app"] = "abort_acse"
    /\ IF AcseCreated
       THEN /\ acse_sent' = Append(acse_sent, Primitive("A-ABORT", <<0, 0>>))
            /\ CallKill("app", "abort")
            /\ Quiet
       ELSE /\ Goto("app", "idle")
            /\ event' = Returned("abort", "AttributeError")
            /\ UNCHANGED << acse_sent, ret >>
    /\ UNCHANGED << flagVars, runVars, dulVars, peerVars, callbacks, calls, helper, primitive >>

NeverRefuses(established) == FALSE

\* lines 520, 650, 744, 783, 819: `if self.is_established:`, whose else
\* branch raises RuntimeError
Refuses(established) == ~established

\* lines 520 and 542-544, 744 and 777-779, 783 and 814-816, 819 and 852-854
HelperCheckEstablished ==
    /\ pc["app"] = "scu_check"
    /\ IF Refuses(is_established)
       THEN /\ Goto("app", "idle")
            /\ event' = Returned(helper, "RuntimeError")
            /\ helper' = None
       ELSE Goto("app", "scu_select") /\ Quiet /\ UNCHANGED helper
    /\ UNCHANGED << flagVars, ret, runVars, dulVars, peerVars, logVars, calls, primitive >>

\* lines 745-752, 784-789, 820-827: the SOP class each query model selects
FindSOPClasses ==
    [W |-> "ModalityWorklistInformationFindSOPClass",
     P |-> "PatientRootFindSOPClass",
     S |-> "StudyRootFindSOPClass",
     O |-> "PatientStudyOnlyFindSOPClass"]

MoveSOPClasses ==
    [P |-> "PatientRootMoveSOPClass",
     S |-> "StudyRootMoveSOPClass",
     O |-> "PatientStudyOnlyMoveSOPClass"]

GetSOPClasses ==
    [W |-> "ModalityWorklistInformationGetSOPClass",
     P |-> "PatientRootGetSOPClass",
     S |-> "StudyRootGetSOPClass",
     O |-> "PatientStudyOnlyGetSOPClass"]

\* lines 753-755, 790-792, 828-830: the query models each helper knows
KnownQueryModels(h) ==
    CASE h = "send_c_find" -> DOMAIN FindSOPClasses
      [] h = "send_c_move" -> DOMAIN MoveSOPClasses
      [] h = "send_c_get"  -> DOMAIN GetSOPClasses
      [] OTHER -> QueryModels

\* lines 521, 745-752, 784-789, 820-827: the SOP class the helper selects
SelectedSOPClass(h, query_model) ==
    CASE h = "send_c_find" -> FindSOPClasses[query_model]
      [] h = "send_c_move" -> MoveSOPClasses[query_model]
      [] h = "send_c_get"  -> GetSOPClasses[query_model]
      [] OTHER -> "VerificationSOPClass"

FoundMatchAlways(supported, sop_class) == TRUE

\* lines 523-530 (757-764, 794-801, 832-839): found_match
FoundMatch(supported, sop_class) ==
    \E k \in 1..Len(supported) : supported[k][2] = sop_class

\* lines 524-526 (758-760, 795-797, 833-835): sop_class.pcid after the loop,
\* the id of the last entry holding the class; unset when no entry holds it
BoundPcid(supported, sop_class) ==
    LET matches == { k \in 1..Len(supported) : supported[k][2] = sop_class }
    IN  IF matches = {} THEN << >>
        ELSE << supported[CHOOSE k \in matches : \A j \in matches : j <= k][1] >>

\* lines 533-534, 754-755, 767-768, 791-792, 804-805, 829-830, 842-843: the
\* helper raises ValueError with this message, called with this query model
HelperRaised(h, query_model, message) ==
    [kind |-> "return", call |-> h, value |-> "ValueError",
     query_model |-> query_model, message |-> message]

\* lines 536-539, 770-773, 807-810, 845-848: the handler of the selected
\* class has been bound to the DIMSE provider, the AE and the peer
HandlerBound(h, query_model, sop_class) ==
    [kind |-> "bound", call |-> h, query_model |-> query_model,
     sop_class |-> sop_class,
     pcid |-> BoundPcid(scu_supported_sop, sop_class),
     maxpdulength |-> BoundMaxPDU(MaxPDULength, local_max_pdu)]

\* lines 521-539 (745-773, 784-810, 820-848): select the SOP class, look it
\* up in scu_supported_sop, raise ValueError or bind the handler
HelperSelect ==
    /\ pc["app"] = "scu_select"
    /\ \E query_model \in QueryModels :
         IF query_model \notin KnownQueryModels(helper)
         THEN /\ Goto("app", "idle")
              /\ event' = HelperRaised(helper, query_model, "query_model must be one of")
              /\ helper' = None
         ELSE IF ~FoundMatch(scu_supported_sop, SelectedSOPClass(helper, query_model))
         THEN /\ Goto("app", "idle")
              /\ event' = HelperRaised(helper, query_model, "is not listed as one of")
              /\ helper' = None
         ELSE /\ Goto("app", "scu_scu")
              /\ event' = HandlerBound(helper, query_model,
                                       SelectedSOPClass(helper, query_model))
              /\ UNCHANGED helper
    /\ UNCHANGED << flagVars, ret, runVars, dulVars, peerVars, logVars, calls, primitive >>

\* lines 541, 776, 813, 851: sop_class.SCU(...) sends its request through
\* the DIMSE provider bound to it
HelperScuSend ==
    /\ pc["app"] = "scu_scu"
    /\ event' = DimseCall("Send", "app")
    /\ Goto("app", "scu_return")
    /\ UNCHANGED << flagVars, ret, runVars, dulVars, peerVars, logVars, calls, helper, primitive >>

\* lines 541, 776, 813, 851: return sop_class.SCU(...)
HelperReturn ==
    /\ pc["app"] = "scu_return"
    /\ event' = Returned(helper, "Status")
    /\ helper' = None
    /\ Goto("app", "idle")
    /\ UNCHANGED << flagVars, ret, runVars, dulVars, peerVars, logVars, calls, primitive >>

\* lines 650, 707-709: if self.is_established ... else raise RuntimeError
StoreCheckEstablished ==
    /\ pc["app"] = "store_check"
    /\ IF Refuses(is_established)
       THEN Goto("app", "idle") /\ event' = Returned("send_c_store", "RuntimeError")
       ELSE Goto("app", "store_build") /\ Quiet
    /\ UNCHANGED << flagVars, ret, runVars, dulVars, peerVars, logVars, calls, helper, primitive >>

StoreTransferSyntaxOfLast(accepted, dataset) ==
    IF accepted = << >> THEN None
    ELSE accepted[Len(accepted)].TransferSyntax[1]

\* lines 656-659: the transfer syntax of the last accepted context whose
\* abstract syntax is the dataset's SOP class, None if there is none
StoreTransferSyntax(accepted, dataset) ==
    LET match == { k \in 1..Len(accepted) :
                     accepted[k].AbstractSyntax = dataset.SOPClassUID }
    IN  IF match = {} THEN None
        ELSE accepted[CHOOSE k \in match : \A j \in match : j <= k].TransferSyntax[1]

\* what send_c_store returns early, with the arguments of the call
StoreReturned(dataset, priority, r) ==
    [kind |-> "return", call |-> "send_c_store", value |-> r,
     dataset |-> dataset, priority |-> priority]

\* the Priority attribute of a fresh C_STORE_ServiceParameters: unset, or
\* the class's default
DefaultPriorities == { << >>, <<2>> }

\* line 675: if priority in [0x0000, 0x0001, 0x0002]
ValidPriority(priority) == priority \in {0, 1, 2}

\* lines 669-680: the primitive with its priority set; an invalid priority
\* assigns 0 to the attribute Priorty and leaves Priority as constructed
WithPriority(dataset, priority, default) ==
    [AffectedSOPClassUID |-> dataset.SOPClassUID,
     Priority |-> IF ValidPriority(priority) THEN <<priority>> ELSE default,
     Priorty  |-> IF ValidPriority(priority) THEN << >> ELSE <<0>>,
     DataSet  |-> None,
     priority |-> <<priority>>]

\* lines 683-685: encode(dataset, ...) gives the bytes, or None
Encode(dataset) == IF dataset.encodable THEN "bytes" ELSE None

EncodeNeverFails(encoded) == FALSE

\* lines 687-692: `if primitive.DataSet is not None: ... else: return`
EncodeFails(encoded) == encoded = None

\* lines 656-692: select the context, build the primitive, encode the dataset
StoreBuild ==
    /\ pc["app"] = "store_build"
    /\ \E dataset \in Datasets, priority \in Priorities,
          default \in DefaultPriorities :
         IF StoreTransferSyntax(presentation_contexts_accepted, dataset) = None
         THEN /\ Goto("app", "idle")
              /\ event' = StoreReturned(dataset, priority, "CannotUnderstand")
              /\ UNCHANGED primitive
         ELSE IF EncodeFails(Encode(dataset))
         THEN /\ Goto("app", "idle")
              /\ event' = StoreReturned(dataset, priority, "CannotUnderstand")
              /\ UNCHANGED primitive
         ELSE /\ primitive' = [WithPriority(dataset, priority, default)
                                  EXCEPT !.DataSet = Encode(dataset)]
              /\ Goto("app", "store_send")
              /\ Quiet
    /\ UNCHANGED << flagVars, ret, runVars, dulVars, peerVars, logVars, calls, helper >>

\* a DIMSE Send call with the primitive it is given
SendCall(t, sent) ==
    [kind |-> "dimse", op |-> "Send", by |-> t, primitive |-> sent,
     maxpdulength |-> BoundMaxPDU(MaxPDULength, local_max_pdu)]

\* line 695: self.dimse.Send(primitive, msg_id, self.acse.MaxPDULength)
StoreSend ==
    /\ pc["app"] = "store_send"
    /\ event' = SendCall("app", primitive)
    /\ primitive' = NoPrimitive
    /\ Goto("app", "store_receive")
    /\ UNCHANGED << flagVars, ret, runVars, dulVars, peerVars, logVars, calls, helper >>

\* line 698: ans, _ = self.dimse.Receive(Wait=True, ...)
StoreReceive ==
    /\ pc["app"] = "store_receive"
    /\ event' = DimseCall("Receive", "app")
    /\ Goto("app", "store_return")
    /\ UNCHANGED << flagVars, ret, runVars, dulVars, peerVars, logVars, calls, helper, primitive >>

\* lines 701-705: the status of the response, None on a timeout
StoreReturn ==
    /\ pc["app"] = "store_return"
    /\ \E status \in {"Status", None} : event' = Returned("send_c_store", status)
    /\ Goto("app", "idle")
    /\ UNCHANGED << flagVars, ret, runVars, dulVars, peerVars, logVars, calls, helper, primitive >>

(* --------------------------- specification ---------------------------- *)
Acceptor ==
    \/ AccReceive \/ AccAdmission \/ AccReject \/ AccRejectedCallback
    \/ AccNegotiate \/ AccAccept \/ AccAcceptedCallback \/ AccCheckContexts
    \/ AccAbort \/ AccEstablish
    \/ ScpLoopTest \/ ScpReceive \/ ScpDispatch \/ ScpCheckRelease
    \/ ScpReleasedCallback \/ ScpCheckAbort \/ ScpAbortedCallback
    \/ ScpCheckAlive \/ ScpCheckIdle

Requestor ==
    \/ ReqCheckProposal \/ ReqRequest \/ ReqAcceptedCallback
    \/ ReqCheckContexts \/ ReqAbort \/ ReqBuildReset \/ ReqBuildAppend
    \/ ReqEstablish
    \/ ScuLoopTest \/ ScuCheckRelease \/ ScuReleasedCallback
    \/ ScuCheckAbort \/ ScuAbortedCallback \/ ScuCheckAlive \/ ScuCheckIdle
    \/ ReqRejectedCallback \/ ReqSetRefused \/ ReqAbortedCallback
    \/ ReqSetAborted \/ ReqDulKill

Application ==
    \/ AppCall \/ AppCallHelper \/ AppCallDeprecated \/ Release \/ Abort
    \/ HelperCheckEstablished \/ HelperSelect \/ HelperScuSend \/ HelperReturn
    \/ StoreCheckEstablished \/ StoreBuild \/ StoreSend \/ StoreReceive
    \/ StoreReturn

Kill ==
    \E t \in Threads :
        KillSetFlag(t) \/ KillClearEstablished(t) \/ KillStopDul(t) \/ KillSleep(t)

Next == Construct \/ RunStart \/ Acceptor \/ Requestor \/ Application \/ Kill

Spec == Init /\ [][Next]_vars

\* the steps of the supervisor thread and of a call in progress on the
\* application thread; what dul.Stop() answers (line 192) is the DUL's to
\* decide
SupStep ==
    \/ RunStart \/ Acceptor \/ Requestor
    \/ KillSetFlag("sup") \/ KillClearEstablished("sup")
    \/ KillStopDul("sup") \/ KillSleep("sup")

AppStep ==
    \/ Release \/ Abort
    \/ HelperCheckEstablished \/ HelperSelect \/ HelperScuSend \/ HelperReturn
    \/ StoreCheckEstablished \/ StoreBuild \/ StoreSend \/ StoreReceive
    \/ StoreReturn
    \/ KillSetFlag("app") \/ KillClearEstablished("app")
    \/ KillStopDul("app") \/ KillSleep("app")

\* both threads keep being scheduled: a thread that can take a step
\* eventually takes one
FairSpec == Spec /\ WF_vars(SupStep) /\ WF_vars(AppStep)

(* ------------------------------ claims -------------------------------- *)
\* how many primitives of a type, with given parameters, the ACSE was handed
Sent(type) == Cardinality({ k \in 1..Len(acse_sent) : acse_sent[k].type = type })
SentWith(type, params) ==
    Cardinality({ k \in 1..Len(acse_sent) :
                    acse_sent[k].type = type /\ acse_sent[k].params = params })

\* C1: terminal states are absorbing: once kill() has returned (the DUL
\* confirmed its stop), or is_refused or is_aborted is set, no step of any
\* thread makes is_established true.
C1_TerminalAbsorbing ==
    [][(dul_stopped \/ is_refused \/ is_aborted) => ~is_established']_vars

\* C2: in either role, an established association has at least one accepted
\* presentation context.
C2_EstablishedHasAcceptedContext ==
    is_established => Len(presentation_contexts_accepted) >= 1

\* C2 happens: an acceptor is established, in its loop, with every proposed
\* context accepted
C2_Witness ==
    /\ is_established
    /\ mode = "Acceptor"
    /\ pc["sup"] = "scp_receive"
    /\ Len(presentation_contexts_accepted) = 2

\* C3: every DIMSE Send or Receive call is made in a state where the
\* association is established.
C3_DimseOnlyWhenEstablished ==
    [][event'.kind = "dimse" => is_established]_vars

TerminalCallbacks == {"rejected", "released", "aborted"}

\* C4: each callback fires at most once, and no callback fires after the
\* first of rejected/released/aborted.
C4_CallbacksOnceAndTerminalLast ==
    /\ \A c \in TerminalCallbacks \cup {"accepted"} : Count(c, callbacks) <= 1
    /\ \A i \in 1..Len(callbacks) :
          callbacks[i] \in TerminalCallbacks => i = Len(callbacks)

\* the application's release() handed an A-RELEASE to the ACSE on an
\* established association
LocalReleaseIssued ==
    \E k \in 1..Len(acse_sent) :
        acse_sent[k].type = "A-RELEASE" /\ acse_sent[k].established

\* C5: release round trip: when the supervisor has ended and no call is in
\* progress, the side that issued release() (the requestor) and the side that
\* was delivered the peer's A-RELEASE (the acceptor) have each fired
\* on_association_released exactly once and are no longer established.
C5_ReleaseRoundTrip ==
    ( /\ pc["sup"] = "done"
      /\ pc["app"] = "idle"
      /\ ~peer_abort
      /\ Sent("A-ABORT") = 0
      /\ \/ mode = "Requestor" /\ LocalReleaseIssued
         \/ mode = "Acceptor" /\ peer_release )
    => ( Count("released", callbacks) = 1 /\ ~is_established )

\* the rejection the admission policy of the specification selects: the
\* first of calling AE title, called AE title, association limit that holds
FirstMatch(a, rq) ==
    IF a.require_calling_aet # "" /\ a.require_calling_aet # rq.CallingAETitle
    THEN << <<1, 1, 3>> >>
    ELSE IF a.require_called_aet # "" /\ a.require_called_aet # rq.CalledAETitle
         THEN << <<1, 1, 7>> >>
         ELSE IF a.active_associations > a.maximum_associations
              THEN << <<2, 3, 2>> >>
              ELSE << >>

\* C6: the admission policy is first-match-wins in the order calling AE
\* title, called AE title, association limit: whenever the policy has been
\* evaluated to its end, the rejection selected is that of the first
\* condition that holds.
C6_FirstMatchWins ==
    ( event.kind = "admission" /\ pc["sup"] # "error" )
    => reject_assoc_rsd = FirstMatch(event.ae, event.rq)

\* C7: with both AE titles acceptable, the request is rejected with (2, 3, 2)
\* exactly when the active associations are at least the configured maximum.
C7_LimitBoundary ==
    ( /\ event.kind = "admission"
      /\ event.ae.require_calling_aet = ""
      /\ event.ae.require_called_aet = "" )
    => ( reject_assoc_rsd = << <<2, 3, 2>> >>
           <=> event.ae.active_associations >= event.ae.maximum_associations )

\* C8: a required called AE title that differs from the request's, with the
\* calling title acceptable and the limit not reached, selects the rejection
\* (1, 1, 7) and the supervisor does not end in an unhandled error.
C8_CalledAetRejected ==
    ( /\ event.kind = "admission"
      /\ event.ae.require_called_aet # ""
      /\ event.ae.require_called_aet # event.rq.CalledAETitle
      /\ ~CallingNotRecognised(event.ae, event.rq)
      /\ event.ae.active_associations < event.ae.maximum_associations )
    => ( pc["sup"] = "acc_reject" /\ reject_assoc_rsd = << <<1, 1, 7>> >> )

\* C9: an admission rejection sends exactly one A-ASSOCIATE-RJ, then fires
\* on_association_rejected once, then ends Refused with the DUL stopped; no
\* A-ASSOCIATE-AC is sent, nothing is negotiated, on_association_accepted
\* does not fire and the association is never established.
C9_RejectionSequence ==
    /\ ( mode = "Acceptor" /\ callbacks # << >> /\ reject_assoc_rsd # << >> )
       => Sent("A-ASSOCIATE-RJ") = 1
    /\ ( mode = "Acceptor" /\ reject_assoc_rsd # << >> )
       => ( /\ ~is_established
            /\ Sent("A-ASSOCIATE-AC") = 0
            /\ presentation_contexts_accepted = << >>
            /\ Sent("A-ASSOCIATE-RJ") <= 1 )
    /\ ( mode = "Acceptor" /\ reject_assoc_rsd # << >> /\ pc["sup"] = "done" )
       => ( /\ SentWith("A-ASSOCIATE-RJ", reject_assoc_rsd[1]) = 1
            /\ callbacks = << "rejected" >>
            /\ is_refused
            /\ dul_stopped )

\* C10: an acceptor whose negotiation accepted no context issues exactly one
\* A-ABORT(2, 0), ends Aborted and is never established.
C10_NoContextAborts ==
    /\ ( mode = "Acceptor" /\ assoc_ac # None
         /\ presentation_contexts_accepted = << >> )
       => ( ~is_established /\ SentWith("A-ABORT", <<2, 0>>) <= 1 )
    /\ ( mode = "Acceptor" /\ assoc_ac # None
         /\ presentation_contexts_accepted = << >> /\ pc["sup"] = "done" )
       => ( SentWith("A-ABORT", <<2, 0>>) = 1 /\ is_aborted )

\* C11: on_association_accepted is invoked only once the association is
\* established: every step that fires the accepted callback is taken in a
\* state where is_established is true and the accepted-context list is not
\* empty.
C11_AcceptedCallbackAfterEstablished ==
    [][ Count("accepted", callbacks') > Count("accepted", callbacks)
        => ( is_established /\ presentation_contexts_accepted # << >> ) ]_vars

\* run() has ended: it returned, or an exception ended the thread
RunEnded == pc["sup"] \in {"done", "error"}

\* C12: whenever run() has ended, by any branch, the DUL has been shut down:
\* dul.Stop() has confirmed the stop or dul.Kill() was issued.
C12_DulStoppedWhenRunEnds ==
    RunEnded => ( dul_stopped \/ dul_killed )

LocalAbortIssued ==
    \E k \in 1..Len(acse_sent) :
        /\ acse_sent[k].type = "A-ABORT"
        /\ acse_sent[k].params = <<0, 0>>
        /\ acse_sent[k].established

\* C14: release() and abort() are idempotent: however often release() (or
\* abort()) is called on an association that was established at the first
\* call, the ACSE is handed exactly one A-RELEASE (one A-ABORT).
C14_ReleaseAbortIdempotent ==
    /\ LocalReleaseIssued => Sent("A-RELEASE") = 1
    /\ LocalAbortIssued => SentWith("A-ABORT", <<0, 0>>) = 1

\* thread t's kill() returns in this step
KillReturns(t) == pc[t] = "kill_stop" /\ pc'[t] \notin {"kill_stop", "kill_sleep"}

\* thread t is inside a kill() entered after an earlier kill() had returned
\* with its postcondition
InRepeatedKill(t) ==
    /\ pc[t] \in {"kill_flag", "kill_clear", "kill_stop", "kill_sleep"}
    /\ _Kill /\ ~is_established /\ dul_stopped

\* C15: kill() establishes its postcondition and is idempotent: when kill()
\* returns, _Kill is set, is_established is false and dul.Stop() has returned
\* true; a step of a repeated kill() changes no flag and not
\* scu_supported_sop.
C15_KillPostconditionIdempotent ==
    [][ \A t \in Threads :
          /\ KillReturns(t) => ( _Kill' /\ ~is_established' /\ dul_stopped' )
          /\ ( InRepeatedKill(t) /\ pc'[t] # pc[t] )
             => UNCHANGED << flagVars, scu_supported_sop, dul_stopped >> ]_vars

\* the supervisor handles the received message in this step
HandlesMessage == pc["sup"] = "scp_dispatch" /\ pc'["sup"] # "scp_dispatch"

AllScuHelpers == ScuHelpers \cup {"send_c_store"}

\* the application thread executes a helper's `if self.is_established` in
\* this step
HelperTestsEstablished ==
    /\ pc["app"] \in {"scu_check", "store_check"}
    /\ pc'["app"] # pc["app"]

\* C17: an SCU helper that finds is_established false raises the
\* not-established RuntimeError, makes no DIMSE call and changes no
\* association state, also after kill(), release() or abort().
C17_HelpersRefuseWhenNotEstablished ==
    [][ ( HelperTestsEstablished /\ ~is_established )
        => /\ event'.kind = "return"
           /\ event'.call \in AllScuHelpers
           /\ event'.value = "RuntimeError"
           /\ pc'["app"] = "idle"
           /\ UNCHANGED << flagVars, runVars, dulVars, peerVars, logVars >> ]_vars

\* C17 happens: a helper other than send_c_store was refused on an
\* association that had been established and then killed
C17_Witness ==
    /\ event.kind = "return"
    /\ event.call \in ScuHelpers
    /\ event.value = "RuntimeError"
    /\ _Kill /\ dul_stopped
    /\ scu_supported_sop # << >>

\* send_c_store selects the context, builds and encodes in this step
StoreBuilds == pc["app"] = "store_build" /\ pc'["app"] # "store_build"

\* some accepted context has this abstract syntax
HasContextFor(uid) ==
    \E k \in 1..Len(presentation_contexts_accepted) :
        presentation_contexts_accepted[k].AbstractSyntax = uid

\* C18: send_c_store with a dataset whose SOP class is the abstract syntax
\* of no accepted context returns CannotUnderstand, makes no DIMSE call and
\* leaves is_established and all other association state as they are: no
\* primitive is built for such a dataset, and the call ends in this step.
C18_StoreNoContextCannotUnderstand ==
    [][ StoreBuilds
        => /\ pc'["app"] = "store_send"
              => HasContextFor(primitive'.AffectedSOPClassUID)
           /\ ( event'.kind = "return" /\ ~HasContextFor(event'.dataset.SOPClassUID) )
              => /\ event'.value = "CannotUnderstand"
                 /\ pc'["app"] = "idle"
                 /\ primitive' = NoPrimitive
                 /\ UNCHANGED << flagVars, runVars, dulVars, peerVars, logVars >>
           /\ pc'["app"] \in {"store_send", "idle"}
           /\ pc'["app"] = "idle" => event'.kind = "return" ]_vars

\* C18 happens: on an established association, an encodable dataset with no
\* context was refused
C18_Witness ==
    /\ event.kind = "return"
    /\ event.call = "send_c_store"
    /\ event.value = "CannotUnderstand"
    /\ event.dataset.encodable
    /\ ~HasContextFor(event.dataset.SOPClassUID)
    /\ is_established

\* C19: send_c_store with a dataset that has an accepted context but cannot
\* be encoded returns CannotUnderstand without a Send or a Receive and
\* leaves the association as it is: a primitive goes on to be sent only
\* with an encoded DataSet.
C19_StoreEncodeFailureCannotUnderstand ==
    [][ StoreBuilds
        => /\ pc'["app"] = "store_send" => primitive'.DataSet # None
           /\ ( /\ event'.kind = "return"
                /\ HasContextFor(event'.dataset.SOPClassUID)
                /\ ~event'.dataset.encodable )
              => /\ event'.value = "CannotUnderstand"
                 /\ pc'["app"] = "idle"
                 /\ primitive' = NoPrimitive
                 /\ UNCHANGED << flagVars, runVars, dulVars, peerVars, logVars >>
           /\ ( event'.kind = "return" /\ HasContextFor(event'.dataset.SOPClassUID) )
              => ~event'.dataset.encodable ]_vars

\* C19 happens: on an established association, a dataset with a context
\* that cannot be encoded was refused
C19_Witness ==
    /\ event.kind = "return"
    /\ event.call = "send_c_store"
    /\ event.value = "CannotUnderstand"
    /\ ~event.dataset.encodable
    /\ HasContextFor(event.dataset.SOPClassUID)
    /\ is_established

\* C20: the C-STORE primitive that send_c_store sends carries Priority 0
\* when the priority argument is outside {0, 1, 2}, and the argument itself
\* otherwise.
C20_PriorityCoerced ==
    ( event.kind = "dimse" /\ "primitive" \in DOMAIN event )
    => \A p \in Priorities :
          event.primitive.priority = <<p>>
          => event.primitive.Priority = ( IF p \in {0, 1, 2} THEN <<p>> ELSE <<0>> )

\* the application thread selects and looks up a helper's SOP class in this
\* step
HelperSelects == pc["app"] = "scu_select" /\ pc'["app"] # "scu_select"

\* the query models each helper accepts
AcceptedQueryModels(h) ==
    CASE h = "send_c_move" -> {"P", "S", "O"}
      [] h = "send_c_echo" -> QueryModels
      [] OTHER -> {"W", "P", "S", "O"}

\* some entry of scu_supported_sop holds this SOP class
Supported(sop_class) ==
    \E k \in 1..Len(scu_supported_sop) : scu_supported_sop[k][2] = sop_class

\* C21: a helper called with a query model it does not accept, or whose
\* selected SOP class is the class of no entry of scu_supported_sop, raises
\* ValueError, with no DIMSE call and no change of association state: a
\* handler is bound only for an accepted query model and a supported class.
C21_HelperMisuseRaises ==
    [][ HelperSelects
        => /\ event'.kind \in {"return", "bound"}
           /\ event'.kind = "bound"
              => /\ event'.query_model \in AcceptedQueryModels(helper)
                 /\ Supported(event'.sop_class)
                 /\ event'.call = "send_c_echo"
                    => event'.sop_class = "VerificationSOPClass"
                 /\ event'.call = "send_c_find"
                    => event'.sop_class = FindSOPClasses[event'.query_model]
           /\ event'.kind = "return"
              => /\ event'.value = "ValueError"
                 /\ pc'["app"] = "idle"
                 /\ UNCHANGED << flagVars, runVars, dulVars, peerVars, logVars >> ]_vars

\* C21 happens: send_c_move was called with query model W on an association
\* with supported SOP classes, and raised
C21_Witness ==
    /\ event.kind = "return"
    /\ event.call = "send_c_move"
    /\ event.value = "ValueError"
    /\ event.query_model = "W"
    /\ scu_supported_sop # << >>

\* the responses to the association request that do not accept it
NotAccepted == Responses \ {"A-ASSOCIATE-AC"}

\* the labels of the requestor's steady-state loop (lines 444-473)
ScuLoopLabels == {"scu_loop", "scu_check_release", "scu_released_cb",
                  "scu_check_abort", "scu_aborted_cb", "scu_check_alive",
                  "scu_check_idle"}

\* C22: on the requestor, a response that does not accept the association
\* is classified: a rejection fires on_association_rejected and sets
\* is_refused only, an A-ABORT or an A-P-ABORT sets is_aborted only, any
\* other response sets neither flag; in each case the DUL is killed when
\* run() has returned, is_established is never true, on_association_accepted
\* never fires and the steady-state loop is never entered
C22_ResponseClassification ==
    (mode = "Requestor" /\ assoc_rsp \in NotAccepted) =>
        /\ ~is_established
        /\ Count("accepted", callbacks) = 0
        /\ pc["sup"] \notin ScuLoopLabels
        /\ pc["sup"] = "done" =>
             /\ dul_killed
             /\ is_refused = (assoc_rsp = "A-ASSOCIATE-RJ")
             /\ is_aborted = (assoc_rsp \in {"A-ABORT", "A-P-ABORT"})
             /\ (assoc_rsp = "A-ASSOCIATE-RJ") => (Count("rejected", callbacks) = 1)

\* run() has returned after a rejection: Refused, with the DUL killed
C22_Witness ==
    /\ mode = "Requestor"
    /\ assoc_rsp = "A-ASSOCIATE-RJ"
    /\ pc["sup"] = "done"
    /\ is_refused
    /\ dul_killed
    /\ callbacks = <<"rejected">>

\* the steady-state loop has observed the peer's abort (lines 366, 456)
PeerAbortObserved == peer_abort

\* C23: when the steady-state loop (either role) has observed a peer abort,
\* on_association_aborted has fired and, once run() has finished, is_aborted
\* is true and is_established is false
C23_PeerAbortEndsAborted ==
    (PeerAbortObserved /\ RunEnded) =>
        /\ Count("aborted", callbacks) >= 1
        /\ is_aborted
        /\ ~is_established

\* the loop of an established association has found the DUL dead (lines
\* 374, 466) or its idle timer expired (lines 378, 471) and calls kill()
LoopFoundDulGone ==
    /\ is_established
    /\ pc["sup"] = "kill_flag"
    /\ ( ~dul_alive \/ idle_expired )

\* run() has returned with the DUL shut down and is_established cleared
SupervisorShutDown ==
    /\ pc["sup"] = "done"
    /\ ~is_established
    /\ ( dul_stopped \/ dul_killed )

\* C24: when the loop of an established association (either role) finds the
\* DUL dead or the idle timer expired, the supervisor eventually shuts the
\* DUL down, clears is_established, leaves the loop and terminates, and no
\* callback fires from that point on
C24_DulGoneShutsDown ==
    /\ LoopFoundDulGone ~> SupervisorShutDown
    /\ [][ ( ~dul_alive \/ idle_expired ) => callbacks' = callbacks ]_vars

\* the contexts of a result list that were accepted, without their results
AcceptedOf(results) ==
    SelectSeq2([i \in 1..Len(results) |->
                   [ID |-> results[i].ID,
                    AbstractSyntax |-> results[i].AbstractSyntax,
                    TransferSyntax |-> results[i].TransferSyntax]],
               [i \in 1..Len(results) |-> results[i].Result = "acceptance"], 1)

BindsMaxPDU == "maxpdulength" \in DOMAIN event

\* C26: every handler binding by the acceptor's dispatch or by an SCU helper,
\* and the send of send_c_store, is given the maximum PDU length the ACSE
\* negotiated with the peer: a set value, the one the peer advertised, never
\* the local maximum
C26_SendsCappedByPeerMaxPDU ==
    BindsMaxPDU =>
        /\ event.maxpdulength # << >>
        /\ event.maxpdulength = MaxPDULength
        /\ event.maxpdulength[1] \in PeerMaxPDUs
        /\ event.maxpdulength[1] # local_max_pdu

\* send_c_store has sent its request under a peer maximum of 4096
C26_Witness ==
    /\ event.kind = "dimse"
    /\ BindsMaxPDU
    /\ event.maxpdulength = <<4096>>
    /\ MaxPDULength = <<4096>>

\* thread t is inside kill() (lines 190-193)
InKill(t) == pc[t] \in {"kill_flag", "kill_clear", "kill_stop", "kill_sleep"}

\* C27: kill() always terminates: a thread that has entered kill(), directly
\* or through release(), abort() or a supervisor path, eventually leaves it,
\* whatever dul.Stop() answers
C27_KillTerminates ==
    \A t \in Threads : InKill(t) ~> ~InKill(t)

\* the labels of the acceptor's steady-state loop (lines 315-379)
ScpLoopLabels == {"scp_loop", "scp_receive", "scp_dispatch",
                  "scp_check_release", "scp_released_cb", "scp_check_abort",
                  "scp_aborted_cb", "scp_check_alive", "scp_check_idle"}

\* the supervisor is in its steady-state loop and the kill flag was set by
\* a call of the application thread: the supervisor itself has called
\* kill() for none of a release, an abort, a dead DUL or an idle timeout
ExternalKillInLoop ==
    /\ _Kill
    /\ pc["sup"] \in ScpLoopLabels \cup ScuLoopLabels
    /\ dul_alive
    /\ ~idle_expired
    /\ Count("released", callbacks) = 0
    /\ Count("aborted", callbacks) = 0

\* C28: once release(), abort() or kill() of the application thread has set
\* the kill flag, the supervisor's loop starts no new iteration, dispatches
\* no further DIMSE message to a handler and fires no callback in the
\* iteration in progress, and the supervisor then terminates
C28_ExternalKillHonoured ==
    /\ [][ ExternalKillInLoop =>
             /\ callbacks' = callbacks
             /\ event'.kind # "dispatch"
             /\ (pc["sup"] \in {"scp_loop", "scu_loop"} =>
                    pc'["sup"] \in {"scp_loop", "scu_loop", "done"}) ]_vars
    /\ ExternalKillInLoop ~> RunEnded

\* C29: in the Requestor role the supervisor never calls DIMSE Receive or
\* Send: every DIMSE call of a requestor is made by the application thread,
\* so the supervisor's loop cannot consume a response an SCU helper awaits
C29_RequestorLoopNoDimse ==
    ( mode = "Requestor" /\ event.kind = "dimse" ) => event.by = "app"

\* send_c_store waits for its response while the requestor's supervisor is
\* inside its loop
C29_Witness ==
    /\ mode = "Requestor"
    /\ pc["sup"] \in ScuLoopLabels
    /\ event.kind = "dimse"
    /\ event.op = "Receive"
    /\ event.by = "app"

\* how many of the three status flags are true
FlagsSet ==
    Cardinality({ f \in {"is_established", "is_refused", "is_aborted"} :
        CASE f = "is_established" -> is_established
          [] f = "is_refused" -> is_refused
          [] OTHER -> is_aborted })

\* C30: in every reachable state at most one of is_established, is_refused
\* and is_aborted is true, and is_refused and is_aborted, once true, stay
\* true
C30_StatusFlagsExclusive ==
    /\ [](FlagsSet <= 1)
    /\ [][ (is_refused => is_refused') /\ (is_aborted => is_aborted') ]_vars

\* a requestor that was aborted by its peer and then killed by the
\* application: is_aborted is still the only flag set
C30_Witness ==
    /\ is_aborted
    /\ ~is_refused
    /\ ~is_established
    /\ _Kill
    /\ pc["sup"] = "done"

\* scu_supported_sop as the loop of lines 431-435 leaves it: one entry
\* (context id, SOP class, first transfer syntax) per accepted context
BuiltSupportedSop(accepted) ==
    [k \in 1..Len(accepted) |->
        << accepted[k].ID, UID2SOPClass(accepted[k].AbstractSyntax),
           accepted[k].TransferSyntax[1] >>]

\* C31: on the requestor scu_supported_sop is completely built before the
\* association is established: whenever is_established is true, and
\* whenever a helper has passed the established test, the list holds
\* exactly one entry per accepted context, in accepted order, and a helper
\* binds a context id of an accepted context
C31_SupportedSopBuiltBeforeEstablished ==
    mode = "Requestor" =>
        /\ ( is_established \/ pc["app"] \in {"scu_select", "scu_scu"} ) =>
              /\ scu_supported_sop # << >>
              /\ scu_supported_sop =
                    BuiltSupportedSop(presentation_contexts_accepted)
        /\ event.kind = "bound" =>
              /\ event.pcid # << >>
              /\ \E k \in 1..Len(presentation_contexts_accepted) :
                    presentation_contexts_accepted[k].ID = event.pcid[1]

\* a helper of an established requestor with two accepted contexts has
\* bound the second one
C31_Witness ==
    /\ mode = "Requestor"
    /\ is_established
    /\ Len(scu_supported_sop) = 2
    /\ event.kind = "bound"
    /\ event.pcid = <<3>>

\* C32: the deprecated entry points behave as their replacements: a call of
\* Release(), Abort(reason) or Kill() raises nothing of its own and enters
\* release(), abort() or kill(), so that it issues the same ACSE primitives
\* and leaves the same state, and AssociationEstablished returns
\* is_established
C32_DeprecatedAsReplacements ==
    /\ event.kind = "deprecated" =>
          /\ event.raised = None
          /\ pc["app"] = EntryOf(event.replacement)
    /\ event.kind = "property" => event.result = is_established

====
